---- MODULE Spec2Model ----
(***************************************************************************)
(* antani_sw: an LED-matrix badge.  Three producer tasks (temperature,     *)
(* button_driver, ir_receiver) send AppCommands through CHANNEL, a bounded *)
(* queue of capacity 8, to the main loop, which receives at most one       *)
(* command per iteration, renders the active scene through LedMatrix and   *)
(* hands the frame buffer to the LED strip.                                *)
(*                                                                         *)
(* Gains are f32 values in the source.  Here a gain is the integer         *)
(* numerator of a fraction over GainDen; GainDen is the common denominator *)
(* of the brightness steps and of every value the temperature formula can  *)
(* produce from an integer ADC sample, so that (c as f32 * gain) as u8 is  *)
(* (c * gain) \div GainDen for every channel value c.                      *)
(***************************************************************************)
EXTENDS Integers, Sequences, FiniteSets, TLC

VARIABLES
    framebuffer,     \* LedMatrix.framebuffer: cell index 0..8 -> <<r, g, b>>
    corrected_gain,  \* LedMatrix.corrected_gain
    raw_gain,        \* LedMatrix.raw_gain
    queue,           \* contents of CHANNEL, oldest first
    mpc,             \* main loop: the statement it is at
    t,               \* main loop: the local t, in thirds of a second
    scene_id,        \* main loop: the local scene_id
    gain_id,         \* main loop: the local gain_id
    ch,              \* main loop: the command try_receive returned this iteration
    frame_src,       \* what the main loop last rendered into the frame buffer
    bpc,             \* button_driver: the statement it is at
    press,           \* button_driver: the press being handled and what was sent for it
    tpc,             \* temperature: the statement it is at
    temp,            \* temperature: the local temp (raw ADC sample) and what was sent for it
    ipc,             \* ir_receiver: the statement it is at
    ir_cmd,          \* ir_receiver: the decoded command being sent
    nsent,           \* number of sends into CHANNEL that have completed
    nrecv,           \* number of commands the main loop has received
    since_frame,     \* commands received since the last scene frame was handed over
    handed,          \* times the frame now in the frame buffer was handed to the LED strip
    seen,            \* the types of gain-changing commands the main loop has received
    fault,           \* "none", or the statement whose panic stopped the firmware
    budget,          \* stimuli the environment may still produce, per producer
    in_pattern,      \* argument of a direct call of LedMatrix::render
    in_colour,       \* argument of a direct call of LedMatrix::render
    rpc              \* direct call of LedMatrix::render: "idle", "call" or "done"

vars == <<framebuffer, corrected_gain, raw_gain, queue, mpc, t, scene_id, gain_id,
          ch, frame_src, bpc, press, tpc, temp, ipc, ir_cmd, nsent, nrecv,
          since_frame, handed, seen, fault, budget, in_pattern, in_colour, rpc>>

mainVars == <<mpc, t, scene_id, gain_id, ch, frame_src, since_frame, nrecv, handed, seen>>
matrixVars == <<framebuffer, corrected_gain, raw_gain>>
buttonVars == <<bpc, press>>
tempVars == <<tpc, temp, fault>>
irVars == <<ipc, ir_cmd>>
callVars == <<in_pattern, in_colour, rpc>>

----------------------------------------------------------------------------
(* Bounds of the model. *)

\* Remote commands decoded in a burst of the remote control alone.
MaxBurst == 9
\* Button presses when the button is the only source.
MaxPresses == 4
\* Temperature samples above 40 degrees when the sensor is the only source.
MaxTicks == 3
\* Button presses, or temperature samples, next to a remote control that
\* fills CHANNEL.
MaxQuiet == 1

----------------------------------------------------------------------------
(* LedMatrix *)

LED_MATRIX_WIDTH == 3
LED_MATRIX_HEIGHT == 3
LED_MATRIX_SIZE == LED_MATRIX_WIDTH * LED_MATRIX_HEIGHT

\* An inverted ramp, as for active-low LEDs: 256 entries in range, decreasing.
GAMMA_CORRECTION_Inverted == [i \in 1..256 |-> 256 - i]


GAMMA_CORRECTION == <<
    0, 0, 0, 0, 0, 0, 0, 0, 0, 0, 0, 0, 0, 0, 0, 0,
    0, 0, 0, 0, 0, 0, 0, 0, 0, 0, 0, 0, 1, 1, 1, 1,
    1, 1, 1, 1, 1, 1, 1, 1, 1, 2, 2, 2, 2, 2, 2, 2,
    2, 3, 3, 3, 3, 3, 3, 3, 4, 4, 4, 4, 4, 5, 5, 5,
    5, 6, 6, 6, 6, 7, 7, 7, 7, 8, 8, 8, 9, 9, 9, 10,
    10, 10, 11, 11, 11, 12, 12, 13, 13, 13, 14, 14, 15, 15, 16, 16,
    17, 17, 18, 18, 19, 19, 20, 20, 21, 21, 22, 22, 23, 24, 24, 25,
    25, 26, 27, 27, 28, 29, 29, 30, 31, 32, 32, 33, 34, 35, 35, 36,
    37, 38, 39, 39, 40, 41, 42, 43, 44, 45, 46, 47, 48, 49, 50, 50,
    51, 52, 54, 55, 56, 57, 58, 59, 60, 61, 62, 63, 64, 66, 67, 68,
    69, 70, 72, 73, 74, 75, 77, 78, 79, 81, 82, 83, 85, 86, 87, 89,
    90, 92, 93, 95, 96, 98, 99, 101, 102, 104, 105, 107, 109, 110, 112, 114,
    115, 117, 119, 120, 122, 124, 126, 127, 129, 131, 133, 135, 137, 138, 140, 142,
    144, 146, 148, 150, 152, 154, 156, 158, 160, 162, 164, 167, 169, 171, 173, 175,
    177, 180, 182, 184, 186, 189, 191, 193, 196, 198, 200, 203, 205, 208, 210, 213,
    215, 218, 220, 223, 225, 228, 231, 233, 236, 239, 241, 244, 247, 249, 252, 255
>>

\* GAMMA_CORRECTION[i as usize], i in 0..255
Gamma(i) == GAMMA_CORRECTION[i + 1]

\* Denominator of every gain of the model: 1.0 is GainDen.
GainDen == 220288 * 10

Black == <<0, 0, 0>>
Cells == 0 .. (LED_MATRIX_SIZE - 1)
AllCells(rgb) == [c \in Cells |-> rgb]

\* x as u8 for a non-negative float x: truncated, saturating at 255
AsU8(x) == IF x > 255 THEN 255 ELSE x

\* (c as f32 * gain) as u8
Scale(c, gain) == AsU8((c * gain) \div GainDen)

\* render, lines 109-113: multiply by corrected_gain
ApplyCorrectedGain(colour, cg) == [i \in 1..3 |-> Scale(colour[i], cg)]
\* render, lines 117-121: gamma table
ApplyGamma(colour) == [i \in 1..3 |-> Gamma(colour[i])]
\* render, lines 123-127: multiply by raw_gain
ApplyRawGain(colour, rg) == [i \in 1..3 |-> Scale(colour[i], rg)]

\* A slip in the order of the stages: both gains before the table.
CorrectColour_GainsFirst(colour, cg, rg) ==
    ApplyGamma(ApplyRawGain(ApplyCorrectedGain(colour, cg), rg))

\* render, lines 109-127: the colour that is written to the lit cells
CorrectColour(colour, cg, rg) ==
    ApplyRawGain(ApplyGamma(ApplyCorrectedGain(colour, cg)), rg)

\* A slip in the table: bit 1 wired to the cell of bit 0.
bit_offsets_aliased ==
    << <<0, 2>>, <<0, 2>>, <<0, 0>>, <<1, 2>>, <<1, 1>>, <<1, 0>>,
       <<2, 2>>, <<2, 1>>, <<2, 0>> >>

\* render, lines 130-140: entry i + 1 is the (x, y) of pattern bit i
bit_offsets ==
    << <<0, 2>>, <<0, 1>>, <<0, 0>>, <<1, 2>>, <<1, 1>>, <<1, 0>>,
       <<2, 2>>, <<2, 1>>, <<2, 0>> >>

\* pattern.pattern & (1 << i) != 0
BitSet(pattern, i) == (pattern \div (2 ^ i)) % 2 = 1

\* LedMatrix::set_pixel
\* A pixel write that adds light to what the cell holds instead of replacing it.
set_pixel_Blend(fb, x, y, rgb) ==
    [fb EXCEPT ![y * LED_MATRIX_WIDTH + x] =
        [i \in 1..3 |-> IF @[i] > rgb[i] THEN @[i] ELSE rgb[i]]]

set_pixel(fb, x, y, rgb) ==
    IF x < LED_MATRIX_WIDTH /\ y < LED_MATRIX_HEIGHT
    THEN [fb EXCEPT ![y * LED_MATRIX_WIDTH + x] = rgb]
    ELSE fb

\* render, lines 142-146: the loop over bit_offsets, from entry i on
RECURSIVE WriteBits(_, _, _, _)
WriteBits(fb, pattern, rgb, i) ==
    IF i >= Len(bit_offsets) THEN fb
    ELSE WriteBits(IF BitSet(pattern, i)
                   THEN set_pixel(fb, bit_offsets[i + 1][1], bit_offsets[i + 1][2], rgb)
                   ELSE fb,
                   pattern, rgb, i + 1)

\* LedMatrix::render
render(fb, pattern, colour, cg, rg) ==
    WriteBits(fb, pattern, CorrectColour(colour, cg, rg), 0)

\* A clear that leaves the frame buffer as it is.
clear_Keep(fb) == fb

\* LedMatrix::clear
clear(fb) == AllCells(Black)

----------------------------------------------------------------------------
(* AppCommand and CHANNEL *)

ThermalThrottleMultiplier(g) == [type |-> "ThermalThrottleMultiplier", arg |-> g]
IrCommand(c) == [type |-> "IrCommand", arg |-> c]
ShortButtonPress == [type |-> "ShortButtonPress", arg |-> 0]
LongButtonPress == [type |-> "LongButtonPress", arg |-> 0]

\* try_receive returned Err: no command this iteration
NoCommand == [type |-> "None", arg |-> 0, seq |-> 0]

\* A command in CHANNEL, with the serial number of its send.
Msg(cmd, n) == [type |-> cmd.type, arg |-> cmd.arg, seq |-> n]

\* Capacity of CHANNEL
CHANNEL_CAP == 8

\* A channel of capacity zero: no send ever finds room.
HasRoom_Never(q) == Len(q) < 0

\* A slip in the capacity test: one slot too many.
HasRoom_OffByOne(q) == Len(q) <= CHANNEL_CAP

\* Channel::send completes only while the queue holds fewer than CHANNEL_CAP commands
HasRoom(q) == Len(q) < CHANNEL_CAP

\* A receive that empties the queue instead of taking one command.
Remaining_Drain(q) == << >>

\* CHANNEL.try_receive(): what stays in the queue
Remaining(q) == IF q = << >> THEN q ELSE Tail(q)

\* CHANNEL.try_receive(): what is returned
Received(q) == IF q = << >> THEN NoCommand ELSE Head(q)

----------------------------------------------------------------------------
(* PATTERNS and the scenes of main *)

power_100 == 511    \* 0b111111111
power_75 == 63      \* 0b000111111
power_50 == 7       \* 0b000000111
power_25 == 1       \* 0b000000001
glider == 143       \* 0b010001111
all_on == 511       \* 0b111111111
everything_once == <<256, 128, 64, 32, 16, 8, 4, 2, 1>>

White == <<255, 255, 255>>
Blue == <<0, 0, 255>>

Solid(rgb) == [kind |-> "Solid", rgb |-> rgb, phase |-> 0]
\* Rainbow(0.25, phase): the phase in sixths of a turn
Rainbow(phase6) == [kind |-> "Rainbow", rgb |-> Black, phase |-> phase6]

RenderCommand(effect, pattern, color, shaders) ==
    [effect |-> effect, pattern |-> pattern, color |-> color, shaders |-> shaders]

scenes == <<
    \* strobing glider
    << RenderCommand("SimplePattern", glider, Solid(Blue), 2) >>,
    \* glider with particles
    << RenderCommand("SimplePattern", glider, Solid(Blue), 1),
       RenderCommand("AnimationPattern", 0, Rainbow(0), 0),
       RenderCommand("ReverseAnimationPattern", 0, Rainbow(3), 0) >>,
    \* double rainbow glider
    << RenderCommand("SimplePattern", all_on, Rainbow(0), 0),
       RenderCommand("SimplePattern", glider, Rainbow(3), 0) >> >>

\* let gains = [1.0, 0.7, 0.5, 0.25]
gains == <<GainDen, (7 * GainDen) \div 10, GainDen \div 2, GainDen \div 4>>

\* The arms numbered from 1: level 0 falls to the default arm and every
\* other level shows the pattern of the level before it.
PowerPattern_FromOne(gid) ==
    CASE gid = 1 -> power_100
      [] gid = 2 -> power_75
      [] gid = 3 -> power_50
      [] OTHER -> power_100

\* match gain_id { 0 => power_100, 1 => power_75, 2 => power_50, 3 => power_25, _ => power_100 }
PowerPattern(gid) ==
    CASE gid = 0 -> power_100
      [] gid = 1 -> power_75
      [] gid = 2 -> power_50
      [] gid = 3 -> power_25
      [] OTHER -> power_100

\* The one-command list rendered on a long press.
Indicator(gid) == << RenderCommand("SimplePattern", PowerPattern(gid), Solid(White), 0) >>

----------------------------------------------------------------------------
(* RenderManager (module rgbeffects).  Time is counted in thirds of a second; *)
(* the instants of TimeSamples are those at which a Rainbow(0.25, _) hue is a *)
(* multiple of 60 degrees, where the hue-to-RGB mapping is exact.             *)

TimeSamples == {0, 2}

\* A shader chain multiplies the brightness by a factor in [0, 1]; the model
\* takes the two ends of that range.
ShadeLevels == {0, GainDen}

\* frameIndex = floor((t mod D) / (D / k)) clamped to [0, k-1], D = 6.0 s, k = 9
FrameIndex(now) ==
    LET k == Len(everything_once)
        i == (now % 18) \div 2
    IN IF i > k - 1 THEN k - 1 ELSE i

EvalMask(cmd, now) ==
    CASE cmd.effect = "SimplePattern" -> cmd.pattern
      [] cmd.effect = "AnimationPattern" -> everything_once[FrameIndex(now) + 1]
      [] cmd.effect = "ReverseAnimationPattern" ->
            everything_once[(Len(everything_once) - 1 - FrameIndex(now)) + 1]

\* hue at full saturation and value, hue in sixths of a turn
HueToRgb(h6) ==
    CASE h6 = 0 -> <<255, 0, 0>>
      [] h6 = 1 -> <<255, 255, 0>>
      [] h6 = 2 -> <<0, 255, 0>>
      [] h6 = 3 -> <<0, 255, 255>>
      [] h6 = 4 -> <<0, 0, 255>>
      [] h6 = 5 -> <<255, 0, 255>>

\* hue = fract(t * speed + phaseOffset), speed = 0.25 turns per second
EvalColour(cmd, now, shade) ==
    LET base == IF cmd.color.kind = "Solid" THEN cmd.color.rgb
                ELSE HueToRgb(((now \div 2) + cmd.color.phase) % 6)
    IN IF cmd.shaders = 0 THEN base ELSE [i \in 1..3 |-> Scale(base[i], shade)]

\* RenderManager::render: the commands from index i on, in list order
RECURSIVE RenderFrom(_, _, _, _, _, _, _)
RenderFrom(fb, cmds, i, now, shade, cg, rg) ==
    IF i > Len(cmds) THEN fb
    ELSE RenderFrom(render(fb, EvalMask(cmds[i], now), EvalColour(cmds[i], now, shade), cg, rg),
                    cmds, i + 1, now, shade, cg, rg)

RenderManager_render(fb, cmds, now, shade, cg, rg) ==
    RenderFrom(fb, cmds, 1, now, shade, cg, rg)

----------------------------------------------------------------------------
(* Main loop *)

\* A step of two scenes instead of one.
NextSceneId_Skip(s) == (s + 2) % Len(scenes)

\* scene_id = (scene_id + 1) % scenes.len()
NextSceneId(s) == (s + 1) % Len(scenes)

\* gain_id = (gain_id + 1) % gains.len()
NextGainId(g) == (g + 1) % Len(gains)

\* A remote command that also switches the scene.
SceneAfter_IrSwitches(cmd, s) ==
    IF cmd.type \in {"ShortButtonPress", "IrCommand"} THEN NextSceneId(s) ELSE s

\* match ch: the arms' effect on scene_id
SceneAfter(cmd, s) == IF cmd.type = "ShortButtonPress" THEN NextSceneId(s) ELSE s

\* match ch: the arms' effect on gain_id
GainIdAfter(cmd, g) == IF cmd.type = "LongButtonPress" THEN NextGainId(g) ELSE g

\* match ch: the arms' effect on raw_gain (set_raw_gain)
RawGainAfter(cmd, rg) == IF cmd.type = "ThermalThrottleMultiplier" THEN cmd.arg ELSE rg

\* match ch: the arms' effect on corrected_gain (set_gain in the LongButtonPress arm)
CorrectedGainAfter(cmd, gid, cg) == IF cmd.type = "LongButtonPress" THEN gains[gid + 1] ELSE cg

SceneFrame(sid) == [kind |-> "scene", id |-> sid]
IndicatorFrame(gid) == [kind |-> "indicator", id |-> gid]
NoFrame == [kind |-> "none", id |-> 0]

\* The commands that change a gain of the LedMatrix, directly or through gain_id.
GainCommands == {"ThermalThrottleMultiplier", "LongButtonPress"}

\* A handler that returns, so that the tasks go on after a panic.
Halted_Never == FALSE

\* line 28: panic_probe is the panic handler; a panic in any task stops the
\* whole firmware, no task is polled again
Halted == fault # "none"

\* A loop that leaves the gain to the long-press arm alone.
MainLoopTop_NoSetGain ==
    /\ ~Halted
    /\ mpc = "loop_top"
    /\ \E now \in TimeSamples : t' = now
    /\ corrected_gain' = corrected_gain
    /\ mpc' = "try_receive"
    /\ UNCHANGED <<framebuffer, raw_gain, queue, scene_id, gain_id, ch, frame_src,
                   since_frame, nrecv, handed, seen, nsent, budget>>
    /\ UNCHANGED <<buttonVars, tempVars, irVars, callVars>>

\* lines 277-279: read the clock, set_gain(gains[gain_id])
MainLoopTop ==
    /\ ~Halted
    /\ mpc = "loop_top"
    /\ \E now \in TimeSamples : t' = now
    /\ corrected_gain' = gains[gain_id + 1]
    /\ mpc' = "try_receive"
    /\ UNCHANGED <<framebuffer, raw_gain, queue, scene_id, gain_id, ch, frame_src,
                   since_frame, nrecv, handed, seen, nsent, budget>>
    /\ UNCHANGED <<buttonVars, tempVars, irVars, callVars>>

\* lines 281-327: try_receive, the match, and the render that follows without
\* an await in between: the indicator on LongButtonPress (up to the write of
\* line 318), the scene otherwise (up to the write of line 327)
MainTryReceive ==
    /\ ~Halted
    /\ mpc = "try_receive"
    /\ LET got == Received(queue)
           sid == SceneAfter(got, scene_id)
           gid == GainIdAfter(got, gain_id)
           rg == RawGainAfter(got, raw_gain)
           cg == CorrectedGainAfter(got, gid, corrected_gain)
           n == IF got = NoCommand THEN 0 ELSE 1
       IN /\ queue' = Remaining(queue)
          /\ ch' = got
          /\ nrecv' = nrecv + n
          /\ since_frame' = since_frame + n
          /\ seen' = seen \cup ({got.type} \cap GainCommands)
          /\ handed' = 0
          /\ scene_id' = sid
          /\ gain_id' = gid
          /\ raw_gain' = rg
          /\ corrected_gain' = cg
          /\ \E shade \in ShadeLevels :
                IF got.type = "LongButtonPress"
                THEN /\ framebuffer' = RenderManager_render(framebuffer, Indicator(gid),
                                                            t, shade, cg, rg)
                     /\ frame_src' = IndicatorFrame(gid)
                     /\ mpc' = "indicator_write"
                ELSE /\ framebuffer' = RenderManager_render(framebuffer, scenes[sid + 1],
                                                            t, shade, cg, rg)
                     /\ frame_src' = SceneFrame(sid)
                     /\ mpc' = "frame_write"
    /\ UNCHANGED <<t, nsent, budget>>
    /\ UNCHANGED <<buttonVars, tempVars, irVars, callVars>>

\* line 318: ws2812.write of the indicator frame completes
MainIndicatorWritten ==
    /\ ~Halted
    /\ mpc = "indicator_write"
    /\ mpc' = "indicator_delay"
    /\ handed' = handed + 1
    /\ UNCHANGED <<matrixVars, queue, t, scene_id, gain_id, ch, frame_src, since_frame,
                   nrecv, seen, nsent, budget>>
    /\ UNCHANGED <<buttonVars, tempVars, irVars, callVars>>

\* A hold that polls CHANNEL: a command that arrives while the indicator is
\* shown is taken at the end of the hold and acted on.
MainIndicatorDone_Polls ==
    /\ ~Halted
    /\ mpc = "indicator_delay"
    /\ LET got == Received(queue)
           sid == SceneAfter(got, scene_id)
       IN /\ queue' = Remaining(queue)
          /\ nrecv' = nrecv + (IF got = NoCommand THEN 0 ELSE 1)
          /\ scene_id' = sid
          /\ frame_src' = SceneFrame(sid)
          /\ \E shade \in ShadeLevels :
                framebuffer' = RenderManager_render(clear(framebuffer), scenes[sid + 1],
                                                    t, shade, corrected_gain, raw_gain)
    /\ mpc' = "frame_write"
    /\ handed' = 0
    /\ UNCHANGED <<corrected_gain, raw_gain, t, gain_id, ch, since_frame, seen, nsent, budget>>
    /\ UNCHANGED <<buttonVars, tempVars, irVars, callVars>>

\* lines 319-327: the 1000 ms timer fires, clear, render the scene
MainIndicatorDone ==
    /\ ~Halted
    /\ mpc = "indicator_delay"
    /\ \E shade \in ShadeLevels :
          framebuffer' = RenderManager_render(clear(framebuffer), scenes[scene_id + 1],
                                              t, shade, corrected_gain, raw_gain)
    /\ frame_src' = SceneFrame(scene_id)
    /\ mpc' = "frame_write"
    /\ handed' = 0
    /\ UNCHANGED <<corrected_gain, raw_gain, queue, t, scene_id, gain_id, ch, since_frame,
                   nrecv, seen, nsent, budget>>
    /\ UNCHANGED <<buttonVars, tempVars, irVars, callVars>>

\* line 327: ws2812.write of the scene frame completes
MainFrameWritten ==
    /\ ~Halted
    /\ mpc = "frame_write"
    /\ mpc' = "frame_delay"
    /\ since_frame' = 0
    /\ handed' = handed + 1
    /\ UNCHANGED <<matrixVars, queue, t, scene_id, gain_id, ch, frame_src,
                   nrecv, seen, nsent, budget>>
    /\ UNCHANGED <<buttonVars, tempVars, irVars, callVars>>

\* lines 328-330: the 1 ms timer fires, clear; the iteration ends and its
\* locals t and ch go out of scope
MainFrameDone ==
    /\ ~Halted
    /\ mpc = "frame_delay"
    /\ framebuffer' = clear(framebuffer)
    /\ frame_src' = NoFrame
    /\ ch' = NoCommand
    /\ t' = 0
    /\ mpc' = "loop_top"
    /\ handed' = 0
    /\ UNCHANGED <<corrected_gain, raw_gain, queue, scene_id, gain_id, since_frame,
                   nrecv, seen, nsent, budget>>
    /\ UNCHANGED <<buttonVars, tempVars, irVars, callVars>>

Main ==
    \/ MainLoopTop
    \/ MainTryReceive
    \/ MainIndicatorWritten
    \/ MainIndicatorDone
    \/ MainFrameWritten
    \/ MainFrameDone

----------------------------------------------------------------------------
(* Sending: control.send(cmd).await completes at once while CHANNEL has room  *)
(* and otherwise suspends the task until it has.                              *)

\* The queue after a completed send.
Sent(q, cmd, n) == Append(q, Msg(cmd, n))

----------------------------------------------------------------------------
(* button_driver.  A press is given by the time d, in ms, the button stays    *)
(* low after the task saw it go low; the button is pressed again only once    *)
(* the task waits for it.                                                     *)

DEBOUNCE_MS == 50
LONG_PRESS_MS == 1000

Durations == {30, 49, 50, 500, 999, 1000, 1500}

\* press_duration >= 50 ms && press_duration < 1000 ms
InShortWindow(dur) == dur >= DEBOUNCE_MS /\ dur < LONG_PRESS_MS

\* with_timeout(1000 ms, wait_for_high): the rising edge wins before the
\* deadline, the timer after it; a rising edge exactly at the deadline finds
\* both futures ready at the same poll, and which arm is taken is decided by
\* the timeout combinator.
RaceOutcomes(d) ==
    (IF d <= LONG_PRESS_MS THEN {"Ok"} ELSE {}) \cup
    (IF d >= LONG_PRESS_MS THEN {"Err"} ELSE {})

NoPress == [d |-> 0, short |-> 0, long |-> 0]

\* lines 391-394: the button goes low, press_start is taken, the race starts
ButtonPressed ==
    /\ ~Halted
    /\ bpc = "wait_for_low"
    /\ budget.btn > 0
    /\ \E d \in Durations : press' = [d |-> d, short |-> 0, long |-> 0]
    /\ bpc' = "with_timeout"
    /\ budget' = [budget EXCEPT !.btn = @ - 1]
    /\ UNCHANGED <<matrixVars, mainVars, queue, nsent, tempVars, irVars, callVars>>

\* lines 396, 404-410: Ok(_), the button went high first
ButtonReleased ==
    /\ ~Halted
    /\ bpc = "with_timeout"
    /\ "Ok" \in RaceOutcomes(press.d)
    /\ IF InShortWindow(press.d)
       THEN IF HasRoom(queue)
            THEN /\ queue' = Sent(queue, ShortButtonPress, nsent + 1)
                 /\ nsent' = nsent + 1
                 /\ press' = [press EXCEPT !.short = @ + 1]
                 /\ bpc' = "wait_for_low"
            ELSE /\ bpc' = "send_short"
                 /\ UNCHANGED <<queue, nsent, press>>
       ELSE /\ bpc' = "wait_for_low"
            /\ UNCHANGED <<queue, nsent, press>>
    /\ UNCHANGED <<matrixVars, mainVars, budget, tempVars, irVars, callVars>>

\* lines 398-399: Err(_), the timeout fired first
ButtonTimeout ==
    /\ ~Halted
    /\ bpc = "with_timeout"
    /\ "Err" \in RaceOutcomes(press.d)
    /\ IF HasRoom(queue)
       THEN /\ queue' = Sent(queue, LongButtonPress, nsent + 1)
            /\ nsent' = nsent + 1
            /\ press' = [press EXCEPT !.long = @ + 1]
            /\ bpc' = "wait_for_high"
       ELSE /\ bpc' = "send_long"
            /\ UNCHANGED <<queue, nsent, press>>
    /\ UNCHANGED <<matrixVars, mainVars, budget, tempVars, irVars, callVars>>

\* line 399: the suspended send of LongButtonPress completes
ButtonLongSent ==
    /\ ~Halted
    /\ bpc = "send_long"
    /\ HasRoom(queue)
    /\ queue' = Sent(queue, LongButtonPress, nsent + 1)
    /\ nsent' = nsent + 1
    /\ press' = [press EXCEPT !.long = @ + 1]
    /\ bpc' = "wait_for_high"
    /\ UNCHANGED <<matrixVars, mainVars, budget, tempVars, irVars, callVars>>

\* lines 400, 404-410: the button goes high after a long press; press_duration
\* is then at least the time it was held
ButtonReleasedLate ==
    /\ ~Halted
    /\ bpc = "wait_for_high"
    /\ IF InShortWindow(press.d)
       THEN IF HasRoom(queue)
            THEN /\ queue' = Sent(queue, ShortButtonPress, nsent + 1)
                 /\ nsent' = nsent + 1
                 /\ press' = [press EXCEPT !.short = @ + 1]
                 /\ bpc' = "wait_for_low"
            ELSE /\ bpc' = "send_short"
                 /\ UNCHANGED <<queue, nsent, press>>
       ELSE /\ bpc' = "wait_for_low"
            /\ UNCHANGED <<queue, nsent, press>>
    /\ UNCHANGED <<matrixVars, mainVars, budget, tempVars, irVars, callVars>>

\* line 409: the suspended send of ShortButtonPress completes
ButtonShortSent ==
    /\ ~Halted
    /\ bpc = "send_short"
    /\ HasRoom(queue)
    /\ queue' = Sent(queue, ShortButtonPress, nsent + 1)
    /\ nsent' = nsent + 1
    /\ press' = [press EXCEPT !.short = @ + 1]
    /\ bpc' = "wait_for_low"
    /\ UNCHANGED <<matrixVars, mainVars, budget, tempVars, irVars, callVars>>

Button ==
    \/ ButtonPressed
    \/ ButtonReleased
    \/ ButtonTimeout
    \/ ButtonLongSent
    \/ ButtonReleasedLate
    \/ ButtonShortSent

----------------------------------------------------------------------------
(* temperature.  A temperature is kept as an integer multiple of 1/TempDen    *)
(* degrees:  (3.3 / 4096) * raw is 103125 * raw / (32 * 1000000) volt, and    *)
(* dividing by 0.001721 gives (103125 * raw - 90368000) / 220288 after the    *)
(* offset 0.706 is taken off.  GainDen is 10 * TempDen.                       *)

TempDen == 220288

\* 12-bit ADC samples: about 65.06, 59.91, 50.08 and 39.78 degrees C
TempSamples == {795, 806, 827, 849}

\* let temp_degrees_c = 27.0 - (adc_voltage - 0.706) / 0.001721, times TempDen
temp_degrees_c(raw) == 27 * TempDen - (103125 * raw - 90368000)

\* A threshold at the start of the ramp instead of at 40 degrees.
Throttles_From55(raw) == temp_degrees_c(raw) > 55 * TempDen

\* if temp_degrees_c > 40.0
Throttles(raw) == temp_degrees_c(raw) > 40 * TempDen

\* A clamp that bounds the value from below only.
Clamp_LowOnly(x, lo, hi) == IF x < lo THEN lo ELSE x

\* f64::clamp
Clamp(x, lo, hi) == IF x < lo THEN lo ELSE IF x > hi THEN hi ELSE x

\* The ramp without the clamp.
ThrottleGain_NoClamp(raw) == GainDen - (temp_degrees_c(raw) - 55 * TempDen)

\* (1.0 - (temp_degrees_c - 55.0) / 10.0).clamp(0.0, 1.0), times GainDen
ThrottleGain(raw) == Clamp(GainDen - (temp_degrees_c(raw) - 55 * TempDen), 0, GainDen)

NoSample == [raw |-> 0, sent |-> << >>]

\* lines 367-379: adc.read returns a sample, the temperature is computed and
\* the throttle command is sent if the queue has room.  The budget counts the
\* samples that send a command; while it lasts, samples that send none may go
\* on for ever.
TempRead ==
    /\ ~Halted
    /\ tpc = "adc_read"
    /\ budget.temp > 0
    /\ fault' = fault
    /\ \E raw \in TempSamples :
          /\ budget' = [budget EXCEPT !.temp = IF Throttles(raw) THEN @ - 1 ELSE @]
          /\ IF Throttles(raw)
             THEN IF HasRoom(queue)
                  THEN /\ queue' = Sent(queue, ThermalThrottleMultiplier(ThrottleGain(raw)),
                                        nsent + 1)
                       /\ nsent' = nsent + 1
                       /\ temp' = [raw |-> raw,
                                   sent |-> <<ThermalThrottleMultiplier(ThrottleGain(raw))>>]
                       /\ tpc' = "ticker"
                  ELSE /\ temp' = [raw |-> raw, sent |-> << >>]
                       /\ tpc' = "send"
                       /\ UNCHANGED <<queue, nsent>>
             ELSE /\ temp' = [raw |-> raw, sent |-> << >>]
                  /\ tpc' = "ticker"
                  /\ UNCHANGED <<queue, nsent>>
    /\ UNCHANGED <<matrixVars, mainVars, buttonVars, irVars, callVars>>

\* line 367: adc.read returns Err and unwrap() panics
TempReadFailed ==
    /\ ~Halted
    /\ tpc = "adc_read"
    /\ budget.temp > 0
    /\ fault' = "adc_read"
    /\ UNCHANGED <<tpc, temp>>
    /\ UNCHANGED <<matrixVars, mainVars, queue, nsent, budget, buttonVars, irVars, callVars>>

\* lines 377-379: the suspended send of the throttle command completes
TempSent ==
    /\ ~Halted
    /\ tpc = "send"
    /\ HasRoom(queue)
    /\ queue' = Sent(queue, ThermalThrottleMultiplier(ThrottleGain(temp.raw)), nsent + 1)
    /\ nsent' = nsent + 1
    /\ temp' = [temp EXCEPT !.sent = Append(@, ThermalThrottleMultiplier(ThrottleGain(temp.raw)))]
    /\ tpc' = "ticker"
    /\ fault' = fault
    /\ UNCHANGED <<matrixVars, mainVars, budget, buttonVars, irVars, callVars>>

\* lines 382-383: the 1-second ticker fires; the iteration ends and its local
\* temp goes out of scope
TempTick ==
    /\ ~Halted
    /\ tpc = "ticker"
    /\ tpc' = "adc_read"
    /\ temp' = NoSample
    /\ fault' = fault
    /\ UNCHANGED <<matrixVars, mainVars, queue, nsent, budget, buttonVars, irVars,
                   callVars>>

Temperature ==
    \/ TempRead
    \/ TempReadFailed
    \/ TempSent
    \/ TempTick

----------------------------------------------------------------------------
(* ir_receiver *)

\* cmd.bits of the commands the decoder returns
IrCodes == {69}

\* lines 350-352: an edge on which event_instant returns no command
IrEdge ==
    /\ ~Halted
    /\ ipc = "wait_for_any_edge"
    /\ UNCHANGED <<matrixVars, mainVars, queue, nsent, budget, buttonVars, tempVars, irVars,
                   callVars>>

\* lines 350-353: an edge that completes a command, which is sent
IrDecoded ==
    /\ ~Halted
    /\ ipc = "wait_for_any_edge"
    /\ budget.ir > 0
    /\ budget' = [budget EXCEPT !.ir = @ - 1]
    /\ \E bits \in IrCodes :
          IF HasRoom(queue)
          THEN /\ queue' = Sent(queue, IrCommand(bits), nsent + 1)
               /\ nsent' = nsent + 1
               /\ UNCHANGED <<ipc, ir_cmd>>
          ELSE /\ ipc' = "send"
               /\ ir_cmd' = bits
               /\ UNCHANGED <<queue, nsent>>
    /\ UNCHANGED <<matrixVars, mainVars, buttonVars, tempVars, callVars>>

\* line 353: the suspended send of the command completes
IrSent ==
    /\ ~Halted
    /\ ipc = "send"
    /\ HasRoom(queue)
    /\ queue' = Sent(queue, IrCommand(ir_cmd), nsent + 1)
    /\ nsent' = nsent + 1
    /\ ipc' = "wait_for_any_edge"
    /\ ir_cmd' = 0
    /\ UNCHANGED <<matrixVars, mainVars, budget, buttonVars, tempVars, callVars>>

IrReceiver ==
    \/ IrEdge
    \/ IrDecoded
    \/ IrSent

----------------------------------------------------------------------------
(* The program *)

\* What the environment does in one run: the remote control alone in a burst
\* that overfills CHANNEL; the remote control filling CHANNEL and then the
\* button or the temperature sensor; the button alone; the sensor alone; all
\* three together.
Profiles ==
    { [ir |-> MaxBurst, btn |-> 0, temp |-> 0],
      [ir |-> CHANNEL_CAP, btn |-> MaxQuiet, temp |-> 0],
      [ir |-> CHANNEL_CAP, btn |-> 0, temp |-> MaxQuiet],
      [ir |-> 0, btn |-> MaxPresses, temp |-> 0],
      [ir |-> 0, btn |-> 0, temp |-> MaxTicks],
      [ir |-> 1, btn |-> MaxQuiet, temp |-> 1] }

\* LedMatrix::new, the locals of main before the loop, the tasks just spawned
InitProgram ==
    /\ framebuffer = AllCells(Black)
    /\ corrected_gain = GainDen \div 2
    /\ raw_gain = GainDen
    /\ queue = << >>
    /\ mpc = "loop_top"
    /\ t = 0
    /\ scene_id = 0
    /\ gain_id = 0
    /\ ch = NoCommand
    /\ frame_src = NoFrame
    /\ bpc = "wait_for_low"
    /\ press = NoPress
    /\ tpc = "adc_read"
    /\ temp = NoSample
    /\ ipc = "wait_for_any_edge"
    /\ ir_cmd = 0
    /\ nsent = 0
    /\ nrecv = 0
    /\ since_frame = 0
    /\ handed = 0
    /\ seen = {}
    /\ fault = "none"

Init ==
    /\ InitProgram
    /\ budget \in Profiles
    /\ in_pattern = 0
    /\ in_colour = Black
    /\ rpc = "idle"

Next ==
    \/ Main
    \/ Button
    \/ Temperature
    \/ IrReceiver

Spec == Init /\ [][Next]_vars

\* The executors poll every task that is ready: the main loop goes on (the
\* write to the LED strip and the timers complete), a send suspended on a
\* full CHANNEL completes once CHANNEL keeps having room, the ADC conversion
\* completes and the ticker of the temperature task fires.
Fairness ==
    /\ WF_vars(Main)
    /\ WF_vars(ButtonLongSent)
    /\ WF_vars(ButtonShortSent)
    /\ WF_vars(TempSent)
    /\ WF_vars(IrSent)
    /\ WF_vars(TempRead)
    /\ WF_vars(TempTick)

\* The runs with one busy producer, or with the remote control filling
\* CHANNEL before another producer sends.
LiveProfiles ==
    { [ir |-> MaxBurst, btn |-> 0, temp |-> 0],
      [ir |-> CHANNEL_CAP, btn |-> MaxQuiet, temp |-> 0],
      [ir |-> CHANNEL_CAP, btn |-> 0, temp |-> MaxQuiet],
      [ir |-> 0, btn |-> 0, temp |-> MaxTicks] }

InitLive ==
    /\ InitProgram
    /\ budget \in LiveProfiles
    /\ in_pattern = 0
    /\ in_colour = Black
    /\ rpc = "idle"

SpecLive == InitLive /\ [][Next]_vars /\ Fairness

----------------------------------------------------------------------------
(* LedMatrix::render called directly, on every pattern and on every channel   *)
(* value, with the gains the program can hold.                                *)

Marker == <<9, 9, 9>>
CallPatterns == {0, 1, glider, power_75, 256, 341, all_on}
CallColours == {White, Blue, <<200, 100, 50>>}
ChannelColours == {<<c, 255 - c, (c * 7) % 256>> : c \in 0..255}
CorrectedGains == {gains[i] : i \in 1..Len(gains)} \cup {GainDen \div 2}
RawGains == {ThrottleGain(raw) : raw \in TempSamples} \cup {GainDen, GainDen \div 2}

InitRender ==
    /\ InitProgram
    /\ budget = [ir |-> 0, btn |-> 0, temp |-> 0]
    /\ rpc = "call"
    /\ \/ in_pattern \in 0..511 /\ in_colour \in CallColours
       \/ in_pattern \in CallPatterns /\ in_colour \in ChannelColours

\* the state of the LedMatrix the call is made on
SetUpMatrix ==
    /\ rpc = "call"
    /\ framebuffer' \in {AllCells(Black), AllCells(Marker)}
    /\ corrected_gain' \in CorrectedGains
    /\ raw_gain' \in RawGains
    /\ rpc' = "render"
    /\ UNCHANGED <<mainVars, queue, nsent, budget, buttonVars, tempVars, irVars,
                   in_pattern, in_colour>>

\* mtrx.render(&LedPattern::new(in_pattern), in_colour)
RenderCall ==
    /\ rpc = "render"
    /\ framebuffer' = render(framebuffer, in_pattern, in_colour, corrected_gain, raw_gain)
    /\ rpc' = "done"
    /\ UNCHANGED <<corrected_gain, raw_gain, mainVars, queue, nsent, budget, buttonVars,
                   tempVars, irVars, in_pattern, in_colour>>

NextRender ==
    \/ SetUpMatrix
    \/ RenderCall

SpecRender == InitRender /\ [][NextRender]_vars

----------------------------------------------------------------------------
(* Properties *)

Abs(x) == IF x < 0 THEN 0 - x ELSE x

\* A step of the main loop that takes a command of the given type from CHANNEL.
Consumes(type) ==
    /\ mpc = "try_receive"
    /\ mpc' # mpc
    /\ queue # << >>
    /\ Head(queue).type = type

\* The frames RenderManager::render can produce from a black frame buffer.
Frames(cmds, now, cg, rg) ==
    {RenderManager_render(AllCells(Black), cmds, now, shade, cg, rg) : shade \in ShadeLevels}

\* C1: when button_driver is back at wait_for_low after a press held d ms, it
\* has sent nothing if d < 50, exactly one ShortButtonPress and no
\* LongButtonPress if 50 <= d < 1000, and exactly one LongButtonPress and no
\* ShortButtonPress if d >= 1000.
C1_OneEventPerPress ==
    (bpc = "wait_for_low" /\ press.d > 0) =>
        /\ press.d < DEBOUNCE_MS => (press.short = 0 /\ press.long = 0)
        /\ (press.d >= DEBOUNCE_MS /\ press.d < LONG_PRESS_MS) =>
                (press.short = 1 /\ press.long = 0)
        /\ press.d >= LONG_PRESS_MS => (press.short = 0 /\ press.long = 1)

\* C2: the degrees of a sample, as the claim computes them, times TempDen
C2_TempC(raw) == 27 * TempDen - (103125 * raw - 90368000)

\* C2: clamp(1.0 - (tempC - 55.0) / 10.0, 0.0, 1.0), times GainDen
C2_Gain(raw) ==
    LET x == GainDen - (C2_TempC(raw) - 55 * TempDen)
    IN IF x < 0 THEN 0 ELSE IF x > GainDen THEN GainDen ELSE x

C3_At50(raw) == 2 * Abs(C2_TempC(raw) - 50 * TempDen) <= TempDen

\* C3 as claimed: on a tick whose sample corresponds to 50 degrees C the
\* temperature task sends no command.
C3_NoEventAt50 ==
    (tpc = "ticker" /\ C3_At50(temp.raw)) => temp.sent = << >>

\* C3 as amended: on a tick whose sample corresponds to 50 degrees C the
\* temperature task sends exactly one ThermalThrottleMultiplier(1.0); it sends
\* no command only on a tick whose temperature is at most 40 degrees.
C3_FullGainAt50 ==
    tpc = "ticker" =>
        /\ C3_At50(temp.raw) => temp.sent = <<ThermalThrottleMultiplier(GainDen)>>
        /\ temp.sent = << >> <=> C2_TempC(temp.raw) <= 40 * TempDen

\* C3 witness: the 50-degree sample has been read and one command sent for it.
C3_Witness ==
    /\ tpc = "ticker"
    /\ C3_At50(temp.raw)
    /\ Len(temp.sent) = 1
    /\ queue # << >>
    /\ queue[Len(queue)] = Msg(ThermalThrottleMultiplier(GainDen), nsent)

\* The tasks whose send is suspended on a full CHANNEL.
Suspended ==
    (IF bpc \in {"send_short", "send_long"} THEN {"button_driver"} ELSE {}) \cup
    (IF tpc = "send" THEN {"temperature"} ELSE {}) \cup
    (IF ipc = "send" THEN {"ir_receiver"} ELSE {})

\* C4: CHANNEL never holds more than 8 commands; the commands in it are the
\* sends that completed and were not yet received, in the order they completed
\* (the k-th command received is the k-th sent: none lost, none twice); a send
\* is suspended only on a full queue, a suspended send completes only once
\* there is room and then appends its command; the queue changes only by an
\* append at the tail or a removal at the head.
C4_Mailbox ==
    /\ [](/\ Len(queue) <= 8
          /\ nsent = nrecv + Len(queue)
          /\ \A i \in 1..Len(queue) : queue[i].seq = nrecv + i
          /\ ch # NoCommand => ch.seq = nrecv)
    /\ [][/\ \/ queue' = queue
             \/ queue # << >> /\ queue' = Tail(queue) /\ ch' = Head(queue)
                  /\ nrecv' = nrecv + 1 /\ nsent' = nsent
             \/ queue' # << >> /\ queue = SubSeq(queue', 1, Len(queue') - 1)
                  /\ nsent' = nsent + 1 /\ nrecv' = nrecv
          /\ (Suspended' \ Suspended) # {} => (Len(queue) = 8 /\ queue' = queue)
          /\ (Suspended \ Suspended') # {} =>
                (Len(queue) < 8 /\ Len(queue') = Len(queue) + 1)]_vars

\* C4 witness: nine sends have completed and one command has been received, so
\* the ninth send waited for the receive; the queue is full again.
C4_Witness ==
    /\ nsent = 9
    /\ nrecv = 1
    /\ Len(queue) = 8
    /\ ch.seq = 1

\* C5: an iteration takes at most one command from CHANNEL; an empty CHANNEL
\* does not make the loop wait: the receive step is enabled all the same (in
\* every state of a firmware that has not stopped on a panic) and goes on to
\* render the active scene, whose frame is then handed over and cleared; at
\* most one command is received between two scene frames.
C5_OneEventPerFrame ==
    /\ [](/\ since_frame <= 1
          /\ (mpc = "try_receive" /\ queue = << >> /\ fault = "none") =>
                ENABLED MainTryReceive)
    /\ [][/\ Len(queue') >= Len(queue) - 1
          /\ Len(queue') < Len(queue) => (mpc = "try_receive" /\ mpc' # mpc)
          /\ (mpc = "try_receive" /\ mpc' # mpc /\ queue = << >>) =>
                /\ queue' = << >>
                /\ ch' = NoCommand
                /\ mpc' = "frame_write"
                /\ framebuffer' \in Frames(scenes[scene_id + 1], t, corrected_gain, raw_gain)
          /\ (mpc = "frame_write" /\ mpc' # mpc) =>
                (mpc' = "frame_delay" /\ framebuffer' = framebuffer)
          /\ (mpc = "frame_delay" /\ mpc' # mpc) =>
                (mpc' = "loop_top" /\ framebuffer' = AllCells(Black))]_vars

\* C5 witness: a scene frame rendered in an iteration that found CHANNEL empty,
\* after an earlier iteration had received a command.
C5_Witness ==
    /\ mpc = "frame_write"
    /\ ch = NoCommand
    /\ nrecv > 0
    /\ since_frame = 0
    /\ framebuffer # AllCells(Black)

\* The brightness levels as claimed: 100%, 75%, 50%, 25%.
C6_Levels == <<GainDen, (3 * GainDen) \div 4, GainDen \div 2, GainDen \div 4>>

\* C6: the brightness index stays in 0..3, a LongButtonPress advances it by one
\* modulo 4, and every frame is rendered with the correctedGain of the current
\* level, the levels being 100%, 75%, 50% and 25%.
C6_BrightnessLevels ==
    /\ [](/\ gain_id \in 0..3
          /\ mpc \in {"frame_write", "indicator_write"} =>
                corrected_gain = C6_Levels[gain_id + 1])
    /\ [][Consumes("LongButtonPress") => gain_id' = (gain_id + 1) % 4]_vars

\* C7: consuming a ShortButtonPress sets scene_id to (scene_id + 1) modulo 3,
\* leaves gain_id, corrected_gain and raw_gain unchanged, and the same step
\* renders the new scene and goes to the write of that frame; scene_id stays
\* in 0..2.
C7_ShortPressNextScene ==
    /\ [](scene_id \in 0..2)
    /\ [][Consumes("ShortButtonPress") =>
            /\ scene_id' = (scene_id + 1) % 3
            /\ UNCHANGED <<gain_id, corrected_gain, raw_gain>>
            /\ mpc' = "frame_write"
            /\ framebuffer' \in Frames(scenes[scene_id' + 1], t, corrected_gain, raw_gain)]_vars

\* C7 witness: a ShortButtonPress has just brought the scene index back to 0
\* and scene 0 is in the frame buffer.
C7_Witness ==
    /\ ch.type = "ShortButtonPress"
    /\ scene_id = 0
    /\ mpc = "frame_write"
    /\ framebuffer \in Frames(scenes[1], t, corrected_gain, raw_gain)

\* A step of one of the three producer tasks.
ProducerStep == <<buttonVars, tempVars, irVars, budget, nsent>>' #
                <<buttonVars, tempVars, irVars, budget, nsent>>

\* C8: raw_gain changes only when a ThermalThrottleMultiplier(f) is consumed,
\* is then f, and the frame of that step is rendered with it; scene_id changes
\* only on ShortButtonPress, gain_id only on LongButtonPress; an IrCommand
\* changes none of scene_id, gain_id, corrected_gain, raw_gain; a producer step
\* changes none of the frame buffer, the gains and the indices.
C8_StateOwnedByMain ==
    [][/\ raw_gain' # raw_gain => Consumes("ThermalThrottleMultiplier")
       /\ Consumes("ThermalThrottleMultiplier") =>
             /\ raw_gain' = Head(queue).arg
             /\ mpc' = "frame_write"
             /\ framebuffer' \in Frames(scenes[scene_id + 1], t, corrected_gain,
                                        Head(queue).arg)
       /\ scene_id' # scene_id => Consumes("ShortButtonPress")
       /\ gain_id' # gain_id => Consumes("LongButtonPress")
       /\ Consumes("IrCommand") =>
             UNCHANGED <<scene_id, gain_id, corrected_gain, raw_gain>>
       /\ ProducerStep =>
             UNCHANGED <<framebuffer, corrected_gain, raw_gain, scene_id, gain_id>>]_vars

\* C8 witness: a throttle command below 1.0 has been consumed, raw_gain is its
\* factor and the frame of that iteration is in the frame buffer.
C8_Witness ==
    /\ ch.type = "ThermalThrottleMultiplier"
    /\ ch.arg < GainDen
    /\ ch.arg > 0
    /\ raw_gain = ch.arg
    /\ mpc = "frame_write"
    /\ framebuffer # AllCells(Black)

\* The value the claim gives for a channel: trunc(GAMMA[trunc(c * g1)] * g2).
C9_Channel(c, g1, g2) ==
    LET a == (c * g1) \div GainDen
        b == GAMMA_CORRECTION[a + 1]
    IN (b * g2) \div GainDen

C9_Colour(colour, g1, g2) == [i \in 1..3 |-> C9_Channel(colour[i], g1, g2)]

\* C9: after render, every cell holds what it held before the call (black or
\* the marker) or, channel by channel, trunc(GAMMA[trunc(c * g1)] * g2); with
\* every bit of the pattern set, every cell holds the latter.
C9_PipelineOrder ==
    rpc = "done" =>
        /\ \A cell \in Cells :
              framebuffer[cell] \in
                  {Black, Marker, C9_Colour(in_colour, corrected_gain, raw_gain)}
        /\ in_pattern = 511 =>
              \A cell \in Cells :
                  framebuffer[cell] = C9_Colour(in_colour, corrected_gain, raw_gain)

\* C9 witness: white rendered with g1 = 1.0 and g2 = 0.5 is written as 127 per
\* channel, which is not GAMMA[trunc(255 * 1.0 * 0.5)] = GAMMA[127].
C9_Witness ==
    /\ rpc = "done"
    /\ in_pattern = 511
    /\ in_colour = White
    /\ corrected_gain = GainDen
    /\ raw_gain = GainDen \div 2
    /\ framebuffer[0][1] = 127
    /\ framebuffer[0][1] # GAMMA_CORRECTION[((255 * raw_gain) \div GainDen) + 1]

\* The frame-buffer index of the cell of pattern bit i.
C10_CellOf(i) == bit_offsets[i + 1][2] * 3 + bit_offsets[i + 1][1]

\* C10: bit_offsets has 9 entries, each inside the 3x3 matrix, no two on the
\* same cell; render writes the corrected colour to exactly the cells of the
\* set bits of the pattern and leaves every other cell as it was.
C10_PatternMapping ==
    /\ [](/\ Len(bit_offsets) = 9
          /\ \A i \in 0..8 : bit_offsets[i + 1][1] \in 0..2 /\ bit_offsets[i + 1][2] \in 0..2
          /\ {C10_CellOf(i) : i \in 0..8} = 0..8)
    /\ [][(rpc = "render" /\ rpc' = "done") =>
            \A cell \in 0..8 :
                framebuffer'[cell] =
                    IF \E i \in 0..8 : (in_pattern \div 2^i) % 2 = 1 /\ C10_CellOf(i) = cell
                    THEN C9_Colour(in_colour, corrected_gain, raw_gain)
                    ELSE framebuffer[cell]]_vars

\* C10 witness: the glider (bits 0, 1, 2, 3, 7) rendered in white over the
\* marker: the cells of bits 0 and 7 (6 and 5) are written, those of bits 4 and 8 (4 and 2) are not.
C10_Witness ==
    /\ rpc = "done"
    /\ in_pattern = glider
    /\ in_colour = White
    /\ corrected_gain = GainDen
    /\ raw_gain = GainDen
    /\ framebuffer[6] = White
    /\ framebuffer[5] = White
    /\ framebuffer[4] = Marker
    /\ framebuffer[2] = Marker

\* The commands of a list whose mask covers a cell at time now, by index.
C11_Covering(cmds, now, cell) ==
    {i \in 1..Len(cmds) :
        \E b \in 0..8 : (EvalMask(cmds[i], now) \div 2^b) % 2 = 1 /\ C10_CellOf(b) = cell}

C11_Last(S) == CHOOSE i \in S : \A j \in S : j <= i

\* C11: in a scene frame, a cell no command covers is black, and a cell that
\* one or more commands cover holds the corrected colour of the last of them
\* in the list: a later command overwrites an earlier one, no blending, and a
\* cell only an earlier command covers keeps that command's colour.
C11_LaterCommandWins ==
    (mpc = "frame_write" /\ frame_src.kind = "scene") =>
        LET cmds == scenes[frame_src.id + 1]
        IN \E shade \in ShadeLevels :
              \A cell \in Cells :
                  LET cov == C11_Covering(cmds, t, cell)
                  IN framebuffer[cell] =
                        IF cov = {} THEN Black
                        ELSE C9_Colour(EvalColour(cmds[C11_Last(cov)], t, shade),
                                       corrected_gain, raw_gain)

\* C11 witness: the double rainbow glider at t = 0 and full gains: the cell of
\* bit 0, covered by all_on and then by the glider, holds the glider's cyan;
\* the cell of bit 4, covered by all_on only, holds its red.
C11_Witness ==
    /\ mpc = "frame_write"
    /\ frame_src = SceneFrame(2)
    /\ t = 0
    /\ corrected_gain = GainDen
    /\ raw_gain = GainDen
    /\ C11_Covering(scenes[3], t, 6) = {1, 2}
    /\ C11_Covering(scenes[3], t, 4) = {1}
    /\ framebuffer[6] = <<0, 255, 255>>
    /\ framebuffer[4] = <<255, 0, 0>>

\* C12: every render, of a scene and of the power-level indicator, starts from
\* an all-black frame buffer, so the frame is what the commands give on black;
\* the frame in the buffer is handed to the LED strip exactly once, unchanged,
\* before the buffer is cleared, and the buffer is cleared before the next
\* render; the buffer changes in render and clear steps only.
C12_FrameLifecycle ==
    /\ [](/\ handed \in {0, 1}
          /\ mpc \in {"loop_top", "try_receive"} =>
                (framebuffer = AllCells(Black) /\ handed = 0)
          /\ mpc \in {"frame_write", "indicator_write"} => handed = 0
          /\ mpc \in {"frame_delay", "indicator_delay"} => handed = 1)
    /\ [][/\ (mpc' = "indicator_write" /\ mpc # mpc') =>
                /\ framebuffer = AllCells(Black)
                /\ framebuffer' \in Frames(Indicator(gain_id'), t, corrected_gain', raw_gain')
          /\ (mpc' = "frame_write" /\ mpc # mpc') =>
                /\ mpc = "try_receive" => framebuffer = AllCells(Black)
                /\ mpc = "indicator_delay" => handed = 1
                /\ framebuffer' \in Frames(scenes[scene_id' + 1], t, corrected_gain', raw_gain')
          /\ handed' = handed + 1 =>
                /\ mpc \in {"frame_write", "indicator_write"}
                /\ framebuffer' = framebuffer
          /\ (mpc \in {"frame_delay", "indicator_delay"} /\ mpc' # mpc) =>
                (handed = 1 /\ handed' = 0)
          /\ (mpc = "frame_delay" /\ mpc' # mpc) => framebuffer' = AllCells(Black)
          /\ framebuffer' # framebuffer =>
                (mpc' # mpc /\ mpc \in {"try_receive", "indicator_delay", "frame_delay"})]_vars

\* C12 witness: the indicator frame was handed over and cleared, and the scene
\* frame rendered after it has been handed over once and is still in the buffer.
C12_Witness ==
    /\ mpc = "frame_delay"
    /\ ch.type = "LongButtonPress"
    /\ handed = 1
    /\ framebuffer \in Frames(scenes[scene_id + 1], t, corrected_gain, raw_gain)
    /\ framebuffer # AllCells(Black)

\* C13: corrected_gain and raw_gain are in [0, 1] at all times, every
\* ThermalThrottleMultiplier in CHANNEL or just received carries a factor in
\* [0, 1], and every brightness level of gains is in [0, 1].
C13_GainsInUnitRange ==
    /\ corrected_gain >= 0 /\ corrected_gain <= GainDen
    /\ raw_gain >= 0 /\ raw_gain <= GainDen
    /\ \A i \in 1..Len(queue) :
          queue[i].type = "ThermalThrottleMultiplier" =>
              (queue[i].arg >= 0 /\ queue[i].arg <= GainDen)
    /\ ch.type = "ThermalThrottleMultiplier" => (ch.arg >= 0 /\ ch.arg <= GainDen)
    /\ \A i \in 1..Len(gains) : gains[i] >= 0 /\ gains[i] <= GainDen

\* C13 witness: a frame rendered with both ends of the range: raw_gain 0.0
\* from a sample above 65 degrees, corrected_gain 1.0.
C13_Witness ==
    /\ mpc = "frame_write"
    /\ ch = Msg(ThermalThrottleMultiplier(0), nrecv)
    /\ temp_degrees_c(795) > 65 * TempDen
    /\ raw_gain = 0
    /\ corrected_gain = GainDen

C15_DigressionRunsToEnd ==
    [][/\ Consumes("LongButtonPress") => (mpc' = "indicator_write" /\ ch'.type = "LongButtonPress")
       /\ mpc \in {"indicator_write", "indicator_delay"} =>
             /\ ch.type = "LongButtonPress"
             /\ UNCHANGED <<nrecv, ch, t, scene_id, gain_id, corrected_gain, raw_gain>>
             /\ \/ queue' = queue
                \/ queue' # << >> /\ queue = SubSeq(queue', 1, Len(queue') - 1)
             /\ mpc = "indicator_write" => mpc' \in {"indicator_write", "indicator_delay"}
             /\ mpc = "indicator_delay" => mpc' \in {"indicator_delay", "frame_write"}
             /\ mpc = "indicator_write" => framebuffer' = framebuffer
             /\ (mpc = "indicator_delay" /\ mpc' = "frame_write") =>
                   framebuffer' \in Frames(scenes[scene_id + 1], t, corrected_gain, raw_gain)
             /\ (mpc = "indicator_delay" /\ mpc' = mpc) => framebuffer' = framebuffer]_vars

\* C15 witness: the LongButtonPress was the first command sent and the only
\* one received; eight remote commands sent since wait in CHANNEL while the
\* indicator is held.
C15_Witness ==
    /\ mpc = "indicator_delay"
    /\ ch = Msg(LongButtonPress, 1)
    /\ nrecv = 1
    /\ Len(queue) = CHANNEL_CAP
    /\ \A i \in 1..Len(queue) : queue[i].type = "IrCommand"
    /\ gain_id = 1

\* C16 as claimed: until the first LongButtonPress has been received, every
\* frame is rendered with corrected_gain at its default 0.5, and, until the
\* first ThermalThrottleMultiplier has been received, with raw_gain 1.0.
C16_DefaultGainFrames ==
    mpc \in {"frame_write", "indicator_write"} =>
        /\ "LongButtonPress" \notin seen => corrected_gain = GainDen \div 2
        /\ "ThermalThrottleMultiplier" \notin seen => raw_gain = GainDen

\* C16 as amended: until the first LongButtonPress has been received, every
\* frame is rendered with corrected_gain = gains[0] = 1.0, set at the top of
\* the iteration; the 0.5 of LedMatrix::new is held before the first
\* iteration only and renders no frame; until the first
\* ThermalThrottleMultiplier has been received raw_gain is 1.0.
C16_FirstLevelFrames ==
    /\ "LongButtonPress" \notin seen =>
          /\ gain_id = 0
          /\ mpc \in {"frame_write", "indicator_write"} =>
                (corrected_gain = gains[1] /\ corrected_gain = GainDen)
          /\ corrected_gain = GainDen \div 2 => (mpc = "loop_top" /\ handed = 0 /\ nrecv = 0)
    /\ "ThermalThrottleMultiplier" \notin seen => raw_gain = GainDen

\* C16 witness: a scene frame of an iteration that received a remote command,
\* before any LongButtonPress or ThermalThrottleMultiplier, at full gains.
C16_Witness ==
    /\ mpc = "frame_write"
    /\ seen = {}
    /\ ch.type = "IrCommand"
    /\ corrected_gain = GainDen
    /\ raw_gain = GainDen
    /\ framebuffer = RenderManager_render(AllCells(Black), scenes[1], t, GainDen, GainDen, GainDen)

\* C17: a failed adc.read stops the firmware: the step of the failure sends
\* nothing and changes nothing but the fault, and from then on no command is
\* sent or received, no frame is handed to the LED strip and no task moves;
\* a fault is set by a failed read only, and the temperature task is then
\* still at the read: the failure was not skipped over.
C17_ReadFailureIsFatal ==
    /\ [](fault # "none" => (fault = "adc_read" /\ tpc = "adc_read" /\ temp = NoSample))
    /\ [][/\ fault # "none" =>
                UNCHANGED <<queue, nsent, nrecv, handed, framebuffer, mpc, bpc, tpc, ipc,
                            fault, scene_id, gain_id, corrected_gain, raw_gain>>
          /\ fault' # fault =>
                /\ fault = "none" /\ fault' = "adc_read" /\ tpc = "adc_read"
                /\ UNCHANGED <<queue, nsent, nrecv, handed, framebuffer, mainVars,
                               buttonVars, irVars, tpc, temp>>]_vars

\* C17 witness: the read failed while a frame was waiting to be handed over
\* and CHANNEL was full of commands; no step is possible.
C17_Witness ==
    /\ fault = "adc_read"
    /\ mpc = "frame_write"
    /\ handed = 0
    /\ framebuffer # AllCells(Black)
    /\ Len(queue) = CHANNEL_CAP
    /\ ~ENABLED Next

\* C18: GAMMA_CORRECTION has exactly 256 entries, indexed by 0..255, each
\* entry is in 0..255 and no entry is smaller than the one before it; the
\* value render looks up for a channel is an entry of the table.
C18_GammaTable ==
    /\ Len(GAMMA_CORRECTION) = 256
    /\ DOMAIN GAMMA_CORRECTION = 1..256
    /\ \A i \in 0..255 : Gamma(i) \in 0..255
    /\ \A i \in 0..254 : Gamma(i) <= Gamma(i + 1)
    /\ (rpc = "done" /\ in_pattern = 511 /\ raw_gain = GainDen) =>
          \A k \in 1..3 :
              framebuffer[0][k] = Gamma((in_colour[k] * corrected_gain) \div GainDen)

\* C18 witness: a render at full gains has looked up the last entry of the
\* table for 255 and the first for 0.
C18_Witness ==
    /\ rpc = "done"
    /\ in_pattern = 511
    /\ in_colour = <<255, 0, 249>>
    /\ corrected_gain = GainDen
    /\ raw_gain = GainDen
    /\ framebuffer[0] = <<GAMMA_CORRECTION[256], GAMMA_CORRECTION[1], GAMMA_CORRECTION[250]>>
    /\ GAMMA_CORRECTION[250] < GAMMA_CORRECTION[256]

\* The cells of the power pattern of level n, and how many the claim counts.
C19_Cells(n) ==
    LET patt == <<power_100, power_75, power_50, power_25>>[n + 1]
    IN {C10_CellOf(b) : b \in {b \in 0..8 : (patt \div 2^b) % 2 = 1}}

C19_Count == <<9, 6, 3, 1>>

\* The cells of the frame buffer that are not black.
C19_Lit == {cell \in Cells : framebuffer[cell] # Black}

\* From consuming a LongButtonPress to the scene render, one frame is handed
\* over: the indicator of the new level.
C19_OneIndicatorFrame ==
    /\ Consumes("LongButtonPress") =>
          /\ gain_id' = (gain_id + 1) % 4
          /\ mpc' = "indicator_write"
          /\ frame_src' = IndicatorFrame(gain_id')
          /\ handed' = 0
          /\ framebuffer' \in Frames(<<RenderCommand("SimplePattern",
                                                     <<power_100, power_75, power_50,
                                                       power_25>>[gain_id' + 1],
                                                     Solid(<<255, 255, 255>>), 0)>>,
                                     t, corrected_gain', raw_gain')
    /\ (mpc = "indicator_write" /\ mpc' # mpc) =>
          (mpc' = "indicator_delay" /\ handed' = 1 /\ UNCHANGED <<framebuffer, gain_id>>)
    /\ (mpc = "indicator_delay" /\ mpc' # mpc) =>
          (handed = 1 /\ mpc' = "frame_write" /\ frame_src'.kind = "scene"
           /\ gain_id' = gain_id)

\* C19 as claimed: the indicator frame of level n has exactly the cells of the
\* power pattern of level n lit, 9, 6, 3 and 1 of them for levels 0 to 3, and
\* every other cell black; exactly one such frame is handed over before the
\* scene is rendered again.
C19_IndicatorLit ==
    /\ [](mpc \in {"indicator_write", "indicator_delay"} =>
            /\ C19_Lit = C19_Cells(gain_id)
            /\ Cardinality(C19_Lit) = C19_Count[gain_id + 1])
    /\ [][C19_OneIndicatorFrame]_vars

\* C19 as amended: the indicator frame of level n holds, in exactly the cells
\* of the power pattern of level n (9, 6, 3 and 1 cells), white corrected with
\* the gain of level n and raw_gain, and black in every other cell; those
\* cells are lit unless the corrected white is black, as it is with raw_gain
\* 0.0; exactly one such frame is handed over before the scene is rendered
\* again.
C19_IndicatorWritten ==
    /\ [](mpc \in {"indicator_write", "indicator_delay"} =>
            LET white == C9_Colour(<<255, 255, 255>>, gains[gain_id + 1], raw_gain)
            IN /\ frame_src = IndicatorFrame(gain_id)
               /\ corrected_gain = gains[gain_id + 1]
               /\ Cardinality(C19_Cells(gain_id)) = C19_Count[gain_id + 1]
               /\ \A cell \in Cells :
                     framebuffer[cell] = IF cell \in C19_Cells(gain_id) THEN white ELSE Black
               /\ C19_Lit = IF white = Black THEN {} ELSE C19_Cells(gain_id)
               /\ raw_gain = 0 => white = Black)
    /\ [][C19_OneIndicatorFrame]_vars

\* C19 witness: the indicator of level 1 has been handed over and is held:
\* six cells in the white of gain 0.7, under full raw_gain.
C19_Witness ==
    /\ mpc = "indicator_delay"
    /\ handed = 1
    /\ gain_id = 1
    /\ raw_gain = GainDen
    /\ Cardinality(C19_Lit) = 6
    /\ framebuffer[6] = C9_Colour(<<255, 255, 255>>, gains[2], GainDen)
    /\ framebuffer[6][1] = GAMMA_CORRECTION[178 + 1]
    /\ framebuffer[2] = Black

\* The sample of the current tick, if one was read, is at or below 55 degrees.
C20_Cool == temp = NoSample \/ C2_TempC(temp.raw) <= 55 * TempDen

\* C20: whenever raw_gain is below 1.0 and, from then on, the temperature task
\* keeps sampling and every sample is at or below 55 degrees (those at or
\* below 40 degrees included), raw_gain is eventually 1.0 again.
C20_ReleasedOnCooling ==
    []((raw_gain < GainDen /\ []C20_Cool /\ []<>(tpc = "ticker")) => <>(raw_gain = GainDen))

====
